---- MODULE Spec2Model ----
(***************************************************************************)
(* Model of the recruiting-matching backend.                               *)
(*                                                                         *)
(* Two variants of the same pipeline live in the repository:               *)
(*   - src/unnamed/part_000 : scored register_jd that writes offers and    *)
(*     rejections onto the candidate records and persists candidate.json;  *)
(*   - src/routes/user.js   : register_jd that keeps candidate.json        *)
(*     untouched and stores the full ranking on the posting.               *)
(* The three JSON files are the state.  SpecA and SpecB run the requests   *)
(* of one variant one at a time; SpecConc interleaves requests of          *)
(* part_000 at their await points.                                         *)
(*                                                                         *)
(* Numbers: a similarity is a real in [0,1]; it is held as an integer      *)
(* number of 1/One units, where One is chosen so that every division the   *)
(* code makes (by 4 categories, by the history length) is exact.           *)
(***************************************************************************)
EXTENDS Integers, Sequences, FiniteSets, TLC

\* ---------------------------------------------------------------- bounds
MaxReq == 4

\* ---------------------------------------------------------------- inputs
Positions == {"p1", "p2"}
CandIds == {"c1", "c2"}
Recruiters == {"r1", "r2"}
\* the password an identity registers with, and the passwords a request may present
RegPassword == "pw1"
Passwords == {"pw1", "pw2"}
Categories == {"skills", "education", "responsibilities", "experience"}
TopChoices == {1, 2}

RECURSIVE Factorial(_)
Factorial(n) == IF n <= 1 THEN 1 ELSE n * Factorial(n - 1)

\* similarity 1.0 and 0.5 in model units
One == 8 * Factorial(MaxReq)
Half == One \div 2

\* category scores a candidate can be stored with (getCategoryScore results)
AllZeroScore == [cat \in Categories |-> 0]
PartScore == [skills |-> 9000, education |-> 0, responsibilities |-> 0, experience |-> 5000]
ScoreChoices == {AllZeroScore, PartScore}

\* what the Similarity Service answers for the four categories of one candidate
\* (0 is also what computeCosineSimilarity returns when the call fails)
SvcZero == [cat \in Categories |-> 0]
SvcMixed == [skills |-> One, education |-> Half, responsibilities |-> 0, experience |-> Half]
SvcChoices == {SvcZero, SvcMixed}

\* ---------------------------------------------------------------- state
VARIABLES
  cand,              \* candidate.json : position -> records in key order
  ranking,           \* global_ranking.json : position -> candidate id -> rank (0 = no key)
  jobs,              \* job_description.json : position -> recruiter -> posting
  candidateRankings, \* the ranked list the last register_jd computed
  lastCalls,         \* the (candidate, category) pairs the last register_jd called the Similarity Service for
  last,              \* the last request and its response status (0: not answered yet)
  nreq,              \* number of requests that went through (wrote a store)
  slots,             \* register_jd requests in flight (SpecConc)
  candVer,           \* number of writes of candidate.json so far
  hreq,              \* the request whose upstream calls are followed one by one (SpecCallsA, SpecCallsB)
  hcall,             \* the helper invocation in progress
  hret,              \* the last helper invocation that returned
  engine             \* the Array.prototype.sort implementation of the runtime

\* the state only the call-by-call specifications move
auxVars == <<hreq, hcall, hret, engine>>

vars == <<cand, ranking, jobs, candidateRankings, lastCalls, last, nreq, slots, candVer, auxVars>>

Slots == {1, 2}

\* ---------------------------------------------------------------- helpers
RECURSIVE SumSeq(_)
SumSeq(s) == IF s = <<>> THEN 0 ELSE Head(s) + SumSeq(Tail(s))

Min(a, b) == IF a < b THEN a ELSE b

Ids(pool) == {pool[i].id : i \in 1..Len(pool)}

Has(data, p, c) == c \in Ids(data[p])

IndexOf(pool, c) == CHOOSE i \in 1..Len(pool) : pool[i].id = c

Rec(data, p, c) == data[p][IndexOf(data[p], c)]

\* candidateData[position][number] = candidateDetails : a new key goes last,
\* an existing key keeps its place and gets the new value
PutCandidate(data, p, rec) ==
  IF Has(data, p, rec.id)
    THEN [data EXCEPT ![p][IndexOf(data[p], rec.id)] = rec]
    ELSE [data EXCEPT ![p] = Append(@, rec)]

\* ---------------------------------------------------------------- scores and the ATS score
\* A score is the string getCategoryScore returns, a number with two decimals
\* (or "0"); it is held as the number of hundredths that parseFloat reads from
\* it: 9000 is "90.00".  Missing stands for a score that is absent or falsy.
Missing == -1000000

\* candidate.<cat> && candidate.<cat>.score ? parseFloat(candidate.<cat>.score) : 0
scoreOrZero(sc, cat) == IF sc[cat] = Missing THEN 0 ELSE sc[cat]

\* n / d rounded to the nearest integer, a tie going up: toFixed of a value
\* that the binary format holds exactly
RoundHalfUp(n, d) == (2 * n + d) \div (2 * d)

\* calculateAtsScore: total / 4, clamped to [0, 100], toFixed(2); in hundredths
calculateAtsScoreUnclamped(sc) ==
  LET total == scoreOrZero(sc, "skills") + scoreOrZero(sc, "education")
               + scoreOrZero(sc, "responsibilities") + scoreOrZero(sc, "experience")
  IN IF total < 0 THEN -RoundHalfUp(-total, 4) ELSE RoundHalfUp(total, 4)

calculateAtsScore(sc) ==
  LET total == scoreOrZero(sc, "skills") + scoreOrZero(sc, "education")
               + scoreOrZero(sc, "responsibilities") + scoreOrZero(sc, "experience")
  IN IF total > 4 * 10000 THEN 10000
     ELSE IF total < 0 THEN 0
     ELSE RoundHalfUp(total, 4)

\* the record register_candidate / add_candidate_cv builds
candidateDetails(c, pw, sc) ==
  [id |-> c, pw |-> pw, score |-> sc, os |-> 0, hist |-> <<>>,
   offers |-> <<>>, rejected |-> <<>>, ats |-> calculateAtsScore(sc)]

\* the University that the CV of a candidate names, and the usernames a
\* university report may be asked for
Universities == {"u1", "u2"}
UniversityOf == [c \in CandIds |-> "u1"]

\* overall_rank as login_candidate stores it on a record: the rank, or the
\* sentinel "Not Ranked"; NoKey when the record has no such key
NotRanked == 0
NoKey == -1

\* the record of routes/user.js: it also carries the notification counters, and
\* the keys that login_candidate and candidate_offer_response add to it
\* (notifications is the length of the notifications array)
candidateDetailsB(c, pw, sc) ==
  [id |-> c, pw |-> pw, score |-> sc, os |-> 0, hist |-> <<>>,
   offers |-> <<>>, rejected |-> <<>>,
   notifications |-> 0, new_notification |-> 0, overall_rank |-> NoKey,
   accepted_offer |-> <<>>, declined_offer |-> <<>>,
   University |-> UniversityOf[c], ats |-> calculateAtsScore(sc)]

\* ---------------------------------------------------------------- register_jd, the scoring loop
\* parseFloat(candidate.<cat>.score || 0) === 0
GatedMutant(rec, cat) == FALSE
Gated(rec, cat) == rec.score[cat] = 0

\* simSkills, simEducation, ... : 0 when gated, the service's answer otherwise
SimFor(rec, cat, svc) == IF Gated(rec, cat) THEN 0 ELSE svc[rec.id][cat]

\* the computeCosineSimilarity calls the loop makes for one candidate
CallsFor(rec) == {<<rec.id, cat>> : cat \in {k \in Categories : ~Gated(rec, k)}}

currentSim(rec, svc) ==
  (SimFor(rec, "skills", svc) + SimFor(rec, "education", svc)
    + SimFor(rec, "responsibilities", svc) + SimFor(rec, "experience", svc)) \div 4

overallSimMutant(scores) == scores[Len(scores)]
overallSim(scores) == SumSeq(scores) \div Len(scores)

\* one iteration of the loop on the in-memory record
ScoredMutant(rec, svc) ==
  LET scores == Append(rec.hist, currentSim(rec, svc))
  IN [rec EXCEPT !.hist = scores, !.os = overallSim(scores), !.ats = @ + overallSim(scores)]
Scored(rec, svc) ==
  LET scores == Append(rec.hist, currentSim(rec, svc))
  IN [rec EXCEPT !.hist = scores, !.os = overallSim(scores)]

ScoredPool(pool, svc) == [i \in 1..Len(pool) |-> Scored(pool[i], svc)]

candidateRankingObj(rec, svc) ==
  LET scored == Scored(rec, svc)
  IN [candidateId |-> rec.id, overall_similarity |-> scored.os,
      currentJobSim |-> scored.hist[Len(scored.hist)], ranking |-> 0]

Pushed(pool, svc) == [i \in 1..Len(pool) |-> candidateRankingObj(pool[i], svc)]

\* Array.prototype.sort with (a, b) => b.overall_similarity - a.overall_similarity :
\* stable, descending
RECURSIVE InsertDesc(_, _)
InsertDesc(sorted, x) ==
  IF sorted = <<>> THEN <<x>>
  ELSE IF Head(sorted).overall_similarity >= x.overall_similarity
    THEN <<Head(sorted)>> \o InsertDesc(Tail(sorted), x)
    ELSE <<x>> \o sorted

RECURSIVE InsertAsc(_, _)
InsertAsc(sorted, x) ==
  IF sorted = <<>> THEN <<x>>
  ELSE IF Head(sorted).overall_similarity <= x.overall_similarity
    THEN <<Head(sorted)>> \o InsertAsc(Tail(sorted), x)
    ELSE <<x>> \o sorted

RECURSIVE SortAsc(_)
SortAsc(list) ==
  IF list = <<>> THEN <<>>
  ELSE InsertAsc(SortAsc(SubSeq(list, 1, Len(list) - 1)), list[Len(list)])

RECURSIVE SortDesc(_)
SortDesc(list) ==
  IF list = <<>> THEN <<>>
  ELSE InsertDesc(SortDesc(SubSeq(list, 1, Len(list) - 1)), list[Len(list)])

\* .map((cand, index) => ({ ranking: index + 1, ...cand }))
WithRanking(list) == [i \in 1..Len(list) |-> [list[i] EXCEPT !.ranking = i]]

Ranked(pool, svc) == WithRanking(SortDesc(Pushed(pool, svc)))

\* candidateRankings.slice(0, topCandidatesNumber)
Slice(list, n) == SubSeq(list, 1, Min(n, Len(list)))

topCandidateIds(ranked, n) == {ranked[i].candidateId : i \in 1..Len(Slice(ranked, n))}

companyDetails(r, p) == [company |-> r, position |-> p]

\* ---------------------------------------------------------------- register_jd, part_000
\* the offers / rejections loop over candidatesForPosition
OffersUpdatedMutant(pool, top, r, p) ==
  [i \in 1..Len(pool) |->
     [pool[i] EXCEPT !.offers = Append(@, companyDetails(r, p))]]
OffersUpdated(pool, top, r, p) ==
  [i \in 1..Len(pool) |->
     IF pool[i].id \in top
       THEN [pool[i] EXCEPT !.offers = Append(@, companyDetails(r, p))]
       ELSE [pool[i] EXCEPT !.rejected = Append(@, companyDetails(r, p))]]

\* the candidateData object the handler writes back: the one it read, with the
\* pool of the position scored and given its offers and rejections
ScoredDataMutant(data, p, r, top, svc) ==
  [q \in Positions |->
     IF q = p THEN OffersUpdated(ScoredPool(data[p], svc), top, r, p)
              ELSE ScoredPool(data[q], svc)]
ScoredData(data, p, r, top, svc) ==
  [data EXCEPT ![p] = OffersUpdated(ScoredPool(data[p], svc), top, r, p)]

\* globalRanking[position][candObj.candidateId] = candObj.ranking, into the entry read
MergedRankingMutant(rk, p, ranked) ==
  [rk EXCEPT ![p] =
     [c \in CandIds |->
        IF @[c] = 0 /\ \E i \in 1..Len(ranked) : ranked[i].candidateId = c
          THEN ranked[CHOOSE i \in 1..Len(ranked) : ranked[i].candidateId = c].ranking
          ELSE @[c]]]
MergedRanking(rk, p, ranked) ==
  [rk EXCEPT ![p] =
     [c \in CandIds |->
        IF \E i \in 1..Len(ranked) : ranked[i].candidateId = c
          THEN ranked[CHOOSE i \in 1..Len(ranked) : ranked[i].candidateId = c].ranking
          ELSE @[c]]]

NoJob == [exists |-> FALSE]

\* a register_jd request: where it is ("idle", "await" inside the scoring loop,
\* "done"), its body, the candidateData it read and the version it read
IdleSlot ==
  [pc |-> "idle", position |-> "none", username |-> "none", top |-> 0,
   snap |-> [p \in Positions |-> <<>>], readVer |-> 0, ranked |-> <<>>]

JobPostingA(r, pw, p, ranked, n) ==
  [exists |-> TRUE, username |-> r, Password |-> pw, position |-> p,
   candidates |-> [i \in 1..Min(n, Len(ranked)) |-> Slice(ranked, n)[i].candidateId]]

\* the replies the service is asked to be ready with: one vector per candidate of
\* the pool (a candidate outside the pool is never compared)
SvcFor(pool) ==
  {svc \in [CandIds -> SvcChoices] : \A c \in CandIds \ Ids(pool) : svc[c] = SvcZero}

AllCalls(pool) == UNION {CallsFor(pool[i]) : i \in 1..Len(pool)}

Response(op, p, who, status) == [op |-> op, position |-> p, who |-> who, status |-> status]

\* recruiterFound : some posting in job_description.json has this username and password
recruiterFound(jd, r, pw) ==
  \E pos \in Positions : \E rec \in Recruiters :
    jd[pos][rec].exists /\ jd[pos][rec].username = r /\ jd[pos][rec].Password = pw

\* registeredCandidate : some position holds this number with this password
registeredCandidate(data, c, pw) ==
  \E pos \in Positions : Has(data, pos, c) /\ Rec(data, pos, c).pw = pw

\* ---------------------------------------------------------------- helpers.js, one upstream call
Helpers == {"queryCV", "getEmbedding", "getCategoryScore", "computeCosineSimilarity"}

\* what the upstream service does with one request: an answer, a 429, another
\* HTTP error, or no response at all (error.response undefined)
Replies == {"ok", "rate_limited", "http_error", "no_response"}

\* attempt < 3
RetryLimit == 3

\* error.response && error.response.status === 429 && attempt < 3
shouldRetryMutant(reply, attempt) == reply = "rate_limited" /\ attempt <= RetryLimit
shouldRetry(reply, attempt) == reply = "rate_limited" /\ attempt < RetryLimit

\* what the helper returns from its catch block once it gives up
neutralDefaultMutant(fn, cat) == [thrown |-> fn]
neutralDefaultSentinel(fn, cat) ==
  CASE fn = "queryCV" -> [text |-> ""]
    [] fn = "getEmbedding" -> [embedding |-> "null"]
    [] fn = "getCategoryScore" -> [score |-> 0]
    [] fn = "computeCosineSimilarity" -> [similarity |-> -1]
neutralDefault(fn, cat) ==
  CASE fn = "queryCV" -> [text |-> ""]
    [] fn = "getEmbedding" -> [embedding |-> "null"]
    [] fn = "getCategoryScore" -> [score |-> 0]
    [] fn = "computeCosineSimilarity" -> [similarity |-> 0]

\* what the helper returns when the service answered: the extracted text, the
\* vector, the score of the category, the similarity of the category
answered(fn, cat) ==
  CASE fn = "queryCV" -> [text |-> "text"]
    [] fn = "getEmbedding" -> [embedding |-> "vector"]
    [] fn = "getCategoryScore" -> [score |-> PartScore[cat]]
    [] fn = "computeCosineSimilarity" -> [similarity |-> SvcMixed[cat]]

\* the request being followed: where it is in its calls, whether every call so
\* far gave up, the scores and the similarities it has been given so far, and
\* the comparisons that gave up
NoRequest ==
  [pc |-> "idle", op |-> "none", position |-> "none", who |-> "none", top |-> 0,
   step |-> 0, allFailed |-> FALSE, score |-> AllZeroScore,
   answers |-> [c \in CandIds |-> SvcZero], failed |-> {}]

NoCall == [pc |-> "none", fn |-> "none", cat |-> "none", attempt |-> 0, sent |-> 0, reply |-> "none"]

NoReturn == [fn |-> "none", gaveUp |-> FALSE, result |-> [none |-> 0]]

\* the helper is called: attempt = 1 and the first request goes out
FirstAttempt(fn, cat) ==
  [pc |-> "waiting", fn |-> fn, cat |-> cat, attempt |-> 1, sent |-> 1, reply |-> "none"]

\* ---------------------------------------------------------------- requests of part_000, one at a time
\* a request answered with an error before anything was written
Rejected(op, status) ==
  /\ last' = Response(op, "none", "none", status)
  /\ UNCHANGED <<cand, candVer, ranking, jobs, candidateRankings, lastCalls, nreq, slots, auxVars>>

RegisterCandidateA(p, c, pw, sc) ==
  /\ nreq < MaxReq
  /\ cand' = PutCandidate(cand, p, candidateDetails(c, pw, sc))
  /\ candVer' = candVer + 1
  /\ last' = Response("register_candidate", p, c, 200)
  /\ nreq' = nreq + 1
  /\ UNCHANGED <<ranking, jobs, candidateRankings, lastCalls, slots, auxVars>>

AddCandidateCvA(p, c, pw) ==
  /\ nreq < MaxReq
  /\ IF ~registeredCandidate(cand, c, pw)
       THEN Rejected("add_candidate_cv", 401)
     ELSE IF Has(cand, p, c)
       THEN Rejected("add_candidate_cv", 400)
     ELSE \E sc \in ScoreChoices :
          /\ cand' = PutCandidate(cand, p, candidateDetails(c, pw, sc))
          /\ candVer' = candVer + 1
          /\ last' = Response("add_candidate_cv", p, c, 200)
          /\ nreq' = nreq + 1
          /\ UNCHANGED <<ranking, jobs, candidateRankings, lastCalls, slots, auxVars>>

\* everything register_jd of part_000 does from reading candidate.json on,
\* starting from the candidateData it holds
FinishJdA(op, data, p, r, pw, n, svc) ==
  LET ranked == Ranked(data[p], svc)
  IN /\ last' = Response(op, p, r, 200)
     /\ nreq' = nreq + 1
     /\ candidateRankings' = ranked
     /\ cand' = ScoredData(data, p, r, topCandidateIds(ranked, n), svc)
     /\ candVer' = candVer + 1
     /\ ranking' = MergedRanking(ranking, p, ranked)
     /\ jobs' = [jobs EXCEPT ![p][r] = JobPostingA(r, pw, p, ranked, n)]
     /\ lastCalls' = AllCalls(data[p])

\* register_jd with the answers svc of the Similarity Service
RegisterJdWithA(p, r, pw, n, svc) ==
  /\ nreq < MaxReq
  /\ svc \in SvcFor(cand[p])
  /\ FinishJdA("register_jd", cand, p, r, pw, n, svc)
  /\ UNCHANGED <<slots, auxVars>>

RegisterJdA(p, r, pw, n) == \E svc \in SvcFor(cand[p]) : RegisterJdWithA(p, r, pw, n, svc)

AddJobDescriptionCvA(p, r, pw) ==
  /\ nreq < MaxReq
  /\ IF ~recruiterFound(jobs, r, pw)
       THEN Rejected("add_job_description_cv", 401)
       ELSE \E n \in TopChoices : \E svc \in SvcFor(cand[p]) :
            /\ FinishJdA("add_job_description_cv", cand, p, r, pw, n, svc)
            /\ UNCHANGED <<slots, auxVars>>

Init ==
  /\ cand = [p \in Positions |-> <<>>]
  /\ ranking = [p \in Positions |-> [c \in CandIds |-> 0]]
  /\ jobs = [p \in Positions |-> [r \in Recruiters |-> NoJob]]
  /\ candidateRankings = <<>>
  /\ lastCalls = {}
  /\ last = Response("none", "none", "none", 0)
  /\ nreq = 0
  /\ slots = [s \in Slots |-> IdleSlot]
  /\ candVer = 0
  /\ hreq = NoRequest
  /\ hcall = NoCall
  /\ hret = NoReturn
  /\ engine = "timsort"

NextA ==
  \/ \E p \in Positions, c \in CandIds, sc \in ScoreChoices :
       RegisterCandidateA(p, c, RegPassword, sc)
  \/ \E p \in Positions, c \in CandIds, pw \in Passwords :
       AddCandidateCvA(p, c, pw)
  \/ \E p \in Positions, r \in Recruiters, n \in TopChoices :
       RegisterJdA(p, r, RegPassword, n)
  \/ \E p \in Positions, r \in Recruiters, pw \in Passwords :
       AddJobDescriptionCvA(p, r, pw)

SpecA == Init /\ [][NextA]_vars

\* ---------------------------------------------------------------- requests of routes/user.js, one at a time
\* updateGlobalRanking(position, candidateData): the entry of the position is
\* replaced by the ranks of the candidateData it is given
sortedCandidates(data, p) ==
  SortDesc([i \in 1..Len(data[p]) |->
     [candidateId |-> data[p][i].id, overall_similarity |-> data[p][i].os]])

updateGlobalRanking(rk, p, data) ==
  LET sorted == sortedCandidates(data, p)
  IN [rk EXCEPT ![p] =
       [c \in CandIds |->
          IF \E i \in 1..Len(sorted) : sorted[i].candidateId = c
            THEN CHOOSE i \in 1..Len(sorted) : sorted[i].candidateId = c
            ELSE 0]]

\* the salary and job description a register_jd body may carry; the first
\* pair is the one every posting is registered with unless said otherwise
Terms == {[salary |-> "s1", job_description |-> "jd1"], [salary |-> "s2", job_description |-> "jd2"]}
DefaultTerms == [salary |-> "s1", job_description |-> "jd1"]

JobPostingB(r, pw, p, ranked) ==
  [exists |-> TRUE, username |-> r, Password |-> pw, position |-> p,
   Salary |-> DefaultTerms.salary, job_description |-> DefaultTerms.job_description,
   candidate_rankings |-> ranked,
   selected_candidates |-> <<>>, rejected_candidates |-> <<>>,
   candidates_accepted |-> <<>>, candidates_declined |-> <<>>,
   notifications |-> 0, new_notification |-> 0]

\* the in-memory candidateData after the scoring loop (never written back)
InMemory(data, p, svc) == [data EXCEPT ![p] = ScoredPool(data[p], svc)]

RegisterCandidateB(p, c, pw, sc) ==
  /\ nreq < MaxReq
  /\ cand' = PutCandidate(cand, p, candidateDetailsB(c, pw, sc))
  /\ candVer' = candVer + 1
  /\ last' = Response("register_candidate", p, c, 200)
  /\ nreq' = nreq + 1
  /\ UNCHANGED <<ranking, jobs, candidateRankings, lastCalls, slots, auxVars>>

CandidateCvB(p, c, pw) ==
  /\ nreq < MaxReq
  /\ IF ~registeredCandidate(cand, c, pw)
       THEN Rejected("candidate_cv", 401)
     ELSE IF Has(cand, p, c)
       THEN Rejected("candidate_cv", 400)
     ELSE \E sc \in ScoreChoices :
          /\ cand' = PutCandidate(cand, p, candidateDetailsB(c, pw, sc))
          /\ candVer' = candVer + 1
          /\ last' = Response("candidate_cv", p, c, 200)
          /\ nreq' = nreq + 1
          /\ UNCHANGED <<ranking, jobs, candidateRankings, lastCalls, slots, auxVars>>

FinishJdB(op, p, r, pw, svc) ==
  LET ranked == Ranked(cand[p], svc)
  IN /\ last' = Response(op, p, r, 200)
     /\ nreq' = nreq + 1
     /\ candidateRankings' = ranked
     /\ jobs' = [jobs EXCEPT ![p][r] = JobPostingB(r, pw, p, ranked)]
     /\ ranking' = updateGlobalRanking(ranking, p, InMemory(cand, p, svc))
     /\ lastCalls' = AllCalls(cand[p])
     /\ UNCHANGED <<cand, candVer, slots, engine>>

RegisterJdWithB(p, r, pw, svc) ==
  /\ nreq < MaxReq
  /\ svc \in SvcFor(cand[p])
  /\ FinishJdB("register_jd", p, r, pw, svc)
  /\ UNCHANGED auxVars

RegisterJdB(p, r, pw) == \E svc \in SvcFor(cand[p]) : RegisterJdWithB(p, r, pw, svc)

AddJobDescriptionCvB(p, r, pw) ==
  /\ nreq < MaxReq
  /\ IF ~recruiterFound(jobs, r, pw)
       THEN Rejected("add_job_description_cv", 401)
       ELSE \E svc \in SvcFor(cand[p]) :
            /\ FinishJdB("add_job_description_cv", p, r, pw, svc)
            /\ UNCHANGED auxVars

NextB ==
  \/ \E p \in Positions, c \in CandIds, sc \in ScoreChoices :
       RegisterCandidateB(p, c, RegPassword, sc)
  \/ \E p \in Positions, c \in CandIds, pw \in Passwords :
       CandidateCvB(p, c, pw)
  \/ \E p \in Positions, r \in Recruiters :
       RegisterJdB(p, r, RegPassword)
  \/ \E p \in Positions, r \in Recruiters, pw \in Passwords :
       AddJobDescriptionCvB(p, r, pw)

SpecB == Init /\ [][NextB]_vars

\* ---------------------------------------------------------------- requests of part_000, interleaved
\* The handler of register_jd runs synchronously between awaits.  Its awaits
\* before readFileSync(candidate.json) touch no file; the awaits inside the
\* scoring loop (one per category that is not gated) come after the read and
\* before the write, and touch no file either: they are one suspension point.
\* register_candidate reads and writes candidate.json in one synchronous block.

\* the candidateData a suspended request goes on with
CandidateDataAtWriteMutant(s) == cand
CandidateDataAtWrite(s) == slots[s].snap

\* the request reads candidate.json; if no category of the pool is compared it
\* never awaits again and runs to its end at once
InFlight == Cardinality({s \in Slots : slots[s].pc = "await"})

\* slots are numbered in the order the requests arrive
JdReadC(s, p, r, n) ==
  /\ slots[s].pc = "idle"
  /\ \A t \in Slots : t < s => slots[t].pc # "idle"
  /\ nreq + InFlight < MaxReq
  /\ UNCHANGED auxVars
  /\ IF AllCalls(cand[p]) = {}
       THEN /\ FinishJdA("register_jd", cand, p, r, RegPassword, n, [c \in CandIds |-> SvcZero])
            /\ slots' = [slots EXCEPT ![s] =
                 [pc |-> "done", position |-> p, username |-> r, top |-> n,
                  snap |-> cand, readVer |-> candVer,
                  ranked |-> Ranked(cand[p], [c \in CandIds |-> SvcZero])]]
       ELSE /\ slots' = [slots EXCEPT ![s] =
                 [pc |-> "await", position |-> p, username |-> r, top |-> n,
                  snap |-> cand, readVer |-> candVer, ranked |-> <<>>]]
            /\ UNCHANGED <<cand, candVer, ranking, jobs, candidateRankings, lastCalls, last, nreq>>

\* the similarity calls have answered: sort, offers, and the three files written
JdWriteC(s) ==
  /\ slots[s].pc = "await"
  /\ UNCHANGED auxVars
  /\ \E svc \in SvcFor(CandidateDataAtWrite(s)[slots[s].position]) :
       /\ FinishJdA("register_jd", CandidateDataAtWrite(s), slots[s].position,
                    slots[s].username, RegPassword, slots[s].top, svc)
       /\ slots' = [slots EXCEPT ![s].pc = "done",
                                 ![s].ranked = Ranked(CandidateDataAtWrite(s)[slots[s].position], svc)]

RegisterCandidateC(p, c, sc) ==
  /\ nreq + InFlight < MaxReq
  /\ cand' = PutCandidate(cand, p, candidateDetails(c, RegPassword, sc))
  /\ candVer' = candVer + 1
  /\ last' = Response("register_candidate", p, c, 200)
  /\ nreq' = nreq + 1
  /\ UNCHANGED <<ranking, jobs, candidateRankings, lastCalls, slots, auxVars>>

NextConc ==
  \/ \E p \in Positions, c \in CandIds, sc \in ScoreChoices : RegisterCandidateC(p, c, sc)
  \/ \E s \in Slots, p \in Positions, r \in Recruiters, n \in TopChoices : JdReadC(s, p, r, n)
  \/ \E s \in Slots : JdWriteC(s)

SpecConc == Init /\ [][NextConc]_vars

\* ---------------------------------------------------------------- requests followed call by call
\* register_candidate and register_jd with every upstream call they await as a
\* step of its own: the helper sends a request, the service replies, the helper
\* retries or returns, and the handler goes on to its next call.  Requests are
\* served one at a time.  v is the variant: "A" part_000, "B" routes/user.js.
MaxCallReq == 3

CallPositions == {"p1"}

CatSeq == <<"skills", "education", "responsibilities", "experience">>

\* the body of a register_candidate request: the required fields it lacks, and
\* whether its position is a string
CandidateBodies ==
  {[missing |-> {}, positionIsString |-> TRUE],
   [missing |-> {"cv"}, positionIsString |-> TRUE],
   [missing |-> {"number", "password"}, positionIsString |-> TRUE],
   [missing |-> {}, positionIsString |-> FALSE]}

\* the body of a register_jd request; topCandidates is a number (top) or not
JdBodies ==
  {[missing |-> {}, positionIsString |-> TRUE, topIsNaN |-> FALSE, top |-> n] : n \in TopChoices}
  \cup {[missing |-> {"job_description"}, positionIsString |-> TRUE, topIsNaN |-> FALSE, top |-> 1],
        [missing |-> {}, positionIsString |-> FALSE, topIsNaN |-> FALSE, top |-> 1],
        [missing |-> {}, positionIsString |-> TRUE, topIsNaN |-> TRUE, top |-> 1],
        [missing |-> {}, positionIsString |-> TRUE, topIsNaN |-> FALSE, top |-> 0],
        [missing |-> {}, positionIsString |-> TRUE, topIsNaN |-> FALSE, top |-> -1]}

\* the checks at the top of the two handlers: TRUE when the body goes through
candidateBodyOkMutant(body) == body.positionIsString
candidateBodyOk(body) == body.missing = {} /\ body.positionIsString

jdBodyOkMutant(body) ==
  /\ body.missing = {} /\ body.top # 0
  /\ body.positionIsString
jdBodyOk(body) ==
  /\ body.missing = {} /\ body.top # 0
  /\ body.positionIsString
  /\ ~body.topIsNaN /\ body.top > 0

\* the awaited calls of register_candidate, in order: four extractions, four
\* embeddings, four scores
CandidatePlan ==
  [k \in 1..12 |->
     <<IF k <= 4 THEN "queryCV" ELSE IF k <= 8 THEN "getEmbedding" ELSE "getCategoryScore",
       CatSeq[((k - 1) % 4) + 1]>>]

\* the posting side of register_jd: four extractions, four embeddings
JdSidePlan ==
  [k \in 1..8 |-> <<IF k <= 4 THEN "queryCV" ELSE "getEmbedding", CatSeq[((k - 1) % 4) + 1]>>]

\* the comparisons of the scoring loop, in the order it awaits them: candidate
\* by candidate in key order, the four categories in turn, gated ones skipped
Comparisons(pool) ==
  LET all == [k \in 1..(4 * Len(pool)) |-> <<((k - 1) \div 4) + 1, CatSeq[((k - 1) % 4) + 1]>>]
      kept == SelectSeq(all, LAMBDA pr : ~Gated(pool[pr[1]], pr[2]))
  IN [k \in 1..Len(kept) |-> <<pool[kept[k][1]].id, kept[k][2]>>]

\* the call the request makes at step k, as <<helper, category>>
CallAt(req, k) ==
  IF req.op = "register_candidate" THEN CandidatePlan[k]
  ELSE IF k <= 8 THEN JdSidePlan[k]
  ELSE <<"computeCosineSimilarity", Comparisons(cand[req.position])[k - 8][2]>>

PlanLen(req) ==
  IF req.op = "register_candidate" THEN 12 ELSE 8 + Len(Comparisons(cand[req.position]))

\* a body that fails the checks is answered 400 at once; otherwise the handler
\* enters its try block and awaits its first call
CallsRegisterCandidate(p, c, body) ==
  /\ hreq.pc = "idle"
  /\ nreq < MaxCallReq
  /\ IF ~candidateBodyOk(body)
       THEN Rejected("register_candidate", 400)
       ELSE /\ hreq' = [NoRequest EXCEPT !.pc = "calls", !.op = "register_candidate",
                          !.position = p, !.who = c, !.step = 1, !.allFailed = TRUE]
            /\ hcall' = FirstAttempt(CandidatePlan[1][1], CandidatePlan[1][2])
            /\ last' = Response("register_candidate", p, c, 0)
            /\ UNCHANGED <<cand, candVer, ranking, jobs, candidateRankings, lastCalls,
                           nreq, slots, hret, engine>>

CallsRegisterJd(p, r, body) ==
  /\ hreq.pc = "idle"
  /\ nreq < MaxCallReq
  /\ IF ~jdBodyOk(body)
       THEN Rejected("register_jd", 400)
       ELSE /\ hreq' = [NoRequest EXCEPT !.pc = "calls", !.op = "register_jd",
                          !.position = p, !.who = r, !.top = body.top, !.step = 1,
                          !.allFailed = TRUE]
            /\ hcall' = FirstAttempt(JdSidePlan[1][1], JdSidePlan[1][2])
            /\ last' = Response("register_jd", p, r, 0)
            /\ UNCHANGED <<cand, candVer, ranking, jobs, candidateRankings, lastCalls,
                           nreq, slots, hret, engine>>

\* the request is over: what is kept of it is its operation and whether every
\* one of its calls gave up
Served(req) == [NoRequest EXCEPT !.op = req.op, !.allFailed = req.allFailed]

\* the handler's catch block: 500, nothing written
CallsFailed(req) ==
  /\ last' = Response(req.op, req.position, req.who, 500)
  /\ nreq' = nreq + 1
  /\ hreq' = Served(req)
  /\ hcall' = NoCall
  /\ UNCHANGED <<cand, candVer, ranking, jobs, candidateRankings, lastCalls, slots, engine>>

\* the end of register_candidate: the record is built and candidate.json written
CallsStoreCandidate(v, req) ==
  /\ cand' = PutCandidate(cand, req.position,
                IF v = "A" THEN candidateDetails(req.who, RegPassword, req.score)
                           ELSE candidateDetailsB(req.who, RegPassword, req.score))
  /\ candVer' = candVer + 1
  /\ last' = Response(req.op, req.position, req.who, 200)
  /\ nreq' = nreq + 1
  /\ hreq' = Served(req)
  /\ hcall' = NoCall
  /\ UNCHANGED <<ranking, jobs, candidateRankings, lastCalls, slots, engine>>

\* the end of register_jd: the loop has its similarities, the rest is synchronous
CallsStoreJd(v, req) ==
  /\ IF v = "A"
       THEN FinishJdA(req.op, cand, req.position, req.who, RegPassword, req.top, req.answers)
       ELSE FinishJdB(req.op, req.position, req.who, RegPassword, req.answers)
  /\ hreq' = Served(req)
  /\ hcall' = NoCall
  /\ UNCHANGED <<slots, engine>>

\* the awaited helper has returned result: the handler takes the value and
\* either awaits its next call or runs to its end
CallsResume(v, result, gaveUp) ==
  LET k == hreq.step
      req == [hreq EXCEPT
                !.allFailed = @ /\ gaveUp,
                !.score = IF hcall.fn = "getCategoryScore" /\ "score" \in DOMAIN result
                            THEN [@ EXCEPT ![hcall.cat] = result.score] ELSE @,
                !.answers = IF hcall.fn = "computeCosineSimilarity" /\ "similarity" \in DOMAIN result
                              THEN [@ EXCEPT ![Comparisons(cand[hreq.position])[k - 8][1]][hcall.cat] =
                                                result.similarity]
                              ELSE @,
                !.failed = IF hcall.fn = "computeCosineSimilarity" /\ gaveUp
                             THEN @ \cup {<<Comparisons(cand[hreq.position])[k - 8][1], hcall.cat>>}
                             ELSE @]
  IN /\ hret' = [fn |-> hcall.fn, gaveUp |-> gaveUp, result |-> result]
     /\ IF "thrown" \in DOMAIN result THEN CallsFailed(req)
        ELSE IF k < PlanLen(hreq)
          THEN /\ hreq' = [req EXCEPT !.step = k + 1]
               /\ hcall' = FirstAttempt(CallAt(hreq, k + 1)[1], CallAt(hreq, k + 1)[2])
               /\ UNCHANGED <<cand, candVer, ranking, jobs, candidateRankings, lastCalls,
                              last, nreq, slots, engine>>
        ELSE IF hreq.op = "register_candidate" THEN CallsStoreCandidate(v, req)
        ELSE CallsStoreJd(v, req)

\* the service replies to the request in flight
CallsReply(v, reply) ==
  /\ hcall.pc = "waiting"
  /\ IF reply = "ok" THEN CallsResume(v, answered(hcall.fn, hcall.cat), FALSE)
     ELSE IF shouldRetry(reply, hcall.attempt)
       THEN /\ hcall' = [hcall EXCEPT !.pc = "delay", !.reply = reply]
            /\ UNCHANGED <<cand, candVer, ranking, jobs, candidateRankings, lastCalls,
                           last, nreq, slots, hreq, hret, engine>>
     ELSE CallsResume(v, neutralDefault(hcall.fn, hcall.cat), TRUE)

\* await delay(2000) is over: the helper calls itself with attempt + 1
CallsDelayOver ==
  /\ hcall.pc = "delay"
  /\ hcall' = [hcall EXCEPT !.pc = "waiting", !.attempt = @ + 1, !.sent = @ + 1]
  /\ UNCHANGED <<cand, candVer, ranking, jobs, candidateRankings, lastCalls,
                 last, nreq, slots, hreq, hret, engine>>

NextCallsA ==
  \/ \E p \in CallPositions, c \in CandIds, body \in CandidateBodies : CallsRegisterCandidate(p, c, body)
  \/ \E p \in CallPositions, r \in Recruiters, body \in JdBodies : CallsRegisterJd(p, r, body)
  \/ \E reply \in Replies : CallsReply("A", reply)
  \/ CallsDelayOver

SpecCallsA == Init /\ [][NextCallsA]_vars

NextCallsB ==
  \/ \E p \in CallPositions, c \in CandIds, body \in CandidateBodies : CallsRegisterCandidate(p, c, body)
  \/ \E p \in CallPositions, r \in Recruiters, body \in JdBodies : CallsRegisterJd(p, r, body)
  \/ \E reply \in Replies : CallsReply("B", reply)
  \/ CallsDelayOver

SpecCallsB == Init /\ [][NextCallsB]_vars

\* ---------------------------------------------------------------- routes/user.js, logins, decisions and notifications
\* These handlers await nothing between reading the files and writing them.
DecPositions == {"p1"}

RecruiterDecisions == {"select", "reject", "maybe"}

OfferDecisions == {"accept", "reject"}

Reply(status, error) == [status |-> status, error |-> error]

\* the credential checks of the five endpoints that take a password: the reply
\* they end the request with, status 200 when they let it through
loginCandidateReply(data, c, pw) ==
  IF \E pos \in Positions : Has(data, pos, c) /\ Rec(data, pos, c).pw = pw
    THEN Reply(200, "") ELSE Reply(401, "Invalid credentials")

loginJdReply(jd, r, pw) ==
  IF recruiterFound(jd, r, pw) THEN Reply(200, "") ELSE Reply(401, "Invalid credentials")

clearNotificationReply(data, p, c, pw) ==
  IF ~Has(data, p, c) THEN Reply(404, "Candidate not found for the given position.")
  ELSE IF Rec(data, p, c).pw # pw THEN Reply(401, "Invalid credentials.")
  ELSE Reply(200, "")

recruiterDecisionReply(jd, p, r, pw) ==
  IF ~jd[p][r].exists THEN Reply(404, "Job posting not found for given position and recruiter.")
  ELSE IF jd[p][r].Password # pw THEN Reply(401, "Invalid credentials.")
  ELSE Reply(200, "")

offerResponseReply(data, p, c, pw) ==
  IF ~Has(data, p, c) THEN Reply(404, "Candidate not found for the given position.")
  ELSE IF Rec(data, p, c).pw # pw THEN Reply(401, "Invalid credentials.")
  ELSE Reply(200, "")

\* clear_notification_recruiter looks the posting up and never reads the password
clearRecruiterReply(jd, p, r, pw) ==
  IF ~jd[p][r].exists THEN Reply(404, "Job posting not found for given position and recruiter.")
  ELSE Reply(200, "")

\* list.includes(x) / list.find(o => o.company === r)
Includes(list, x) == \E i \in 1..Len(list) : list[i] = x

FromCompany(list, r) == \E i \in 1..Len(list) : list[i].company = r

\* push unless already there
PushOnce(list, x) == IF Includes(list, x) THEN list ELSE Append(list, x)

\* companyDetails of recruiter_decision: taken from the stored posting
companyDetailsB(job) ==
  [company |-> job.username, salary |-> job.Salary,
   job_description |-> job.job_description, position |-> job.position]

PushOfferAlways(list, r, p) == Append(list, companyDetailsB(jobs[p][r]))
PushOffer(list, r, p) ==
  IF FromCompany(list, r) THEN list ELSE Append(list, companyDetailsB(jobs[p][r]))

\* recruiter_decision on the posting and on the candidate record
DecidedPosting(job, c, decision) ==
  IF decision = "select"
    THEN [job EXCEPT !.selected_candidates = PushOnce(@, c)]
    ELSE [job EXCEPT !.rejected_candidates = PushOnce(@, c)]

DecidedCandidate(rec, r, p, decision) ==
  IF decision = "select"
    THEN [rec EXCEPT !.offers = PushOffer(@, r, p),
                     !.notifications = @ + 1, !.new_notification = @ + 1]
    ELSE [rec EXCEPT !.rejected = PushOffer(@, r, p)]

DecidedData(data, p, c, r, decision) ==
  IF Has(data, p, c)
    THEN [data EXCEPT ![p][IndexOf(data[p], c)] = DecidedCandidate(@, r, p, decision)]
    ELSE data

RecruiterDecisionB(p, r, pw, c, decision) ==
  /\ nreq < MaxReq
  /\ IF decision \notin {"select", "reject"} THEN Rejected("recruiter_decision", 400)
     ELSE IF recruiterDecisionReply(jobs, p, r, pw).status # 200
       THEN Rejected("recruiter_decision", recruiterDecisionReply(jobs, p, r, pw).status)
     ELSE /\ jobs' = [jobs EXCEPT ![p][r] = DecidedPosting(@, c, decision)]
          /\ cand' = DecidedData(cand, p, c, r, decision)
          /\ candVer' = candVer + 1
          /\ last' = Response("recruiter_decision", p, r, 200)
          /\ nreq' = nreq + 1
          /\ UNCHANGED <<ranking, candidateRankings, lastCalls, slots, auxVars>>

\* the offer the candidate holds from the company
OfferFrom(list, r) == list[CHOOSE i \in 1..Len(list) : list[i].company = r]

\* candidate_offer_response on the candidate record and on the posting
RespondedCandidate(rec, company, decision) ==
  IF decision = "accept"
    THEN [rec EXCEPT !.accepted_offer =
            IF FromCompany(@, company) THEN @ ELSE Append(@, OfferFrom(rec.offers, company))]
    ELSE [rec EXCEPT !.declined_offer =
            IF FromCompany(@, company) THEN @ ELSE Append(@, OfferFrom(rec.offers, company))]

RespondedPosting(job, c, decision) ==
  IF decision = "accept"
    THEN [job EXCEPT !.candidates_accepted = PushOnce(@, c),
                     !.notifications = @ + 1, !.new_notification = @ + 1]
    ELSE [job EXCEPT !.candidates_declined = PushOnce(@, c),
                     !.notifications = @ + 1, !.new_notification = @ + 1]

CandidateOfferResponseB(p, c, pw, company, decision) ==
  /\ nreq < MaxReq
  /\ IF offerResponseReply(cand, p, c, pw).status # 200
       THEN Rejected("candidate_offer_response", offerResponseReply(cand, p, c, pw).status)
     ELSE IF ~FromCompany(Rec(cand, p, c).offers, company)
       THEN Rejected("candidate_offer_response", 400)
     ELSE IF ~jobs[p][company].exists
       THEN Rejected("candidate_offer_response", 404)
     ELSE /\ cand' = [cand EXCEPT ![p][IndexOf(cand[p], c)] = RespondedCandidate(@, company, decision)]
          /\ jobs' = [jobs EXCEPT ![p][company] = RespondedPosting(@, c, decision)]
          /\ candVer' = candVer + 1
          /\ last' = Response("candidate_offer_response", p, c, 200)
          /\ nreq' = nreq + 1
          /\ UNCHANGED <<ranking, candidateRankings, lastCalls, slots, auxVars>>

ClearNotificationB(p, c, pw) ==
  /\ nreq < MaxReq
  /\ IF clearNotificationReply(cand, p, c, pw).status # 200
       THEN Rejected("clear_notification", clearNotificationReply(cand, p, c, pw).status)
       ELSE /\ cand' = [cand EXCEPT ![p][IndexOf(cand[p], c)].new_notification = 0]
            /\ candVer' = candVer + 1
            /\ last' = Response("clear_notification", p, c, 200)
            /\ nreq' = nreq + 1
            /\ UNCHANGED <<ranking, jobs, candidateRankings, lastCalls, slots, auxVars>>

ClearNotificationRecruiterB(p, r, pw) ==
  /\ nreq < MaxReq
  /\ IF clearRecruiterReply(jobs, p, r, pw).status # 200
       THEN Rejected("clear_notification_recruiter", clearRecruiterReply(jobs, p, r, pw).status)
       ELSE /\ jobs' = [jobs EXCEPT ![p][r].new_notification = 0]
            /\ last' = Response("clear_notification_recruiter", p, r, 200)
            /\ nreq' = nreq + 1
            /\ UNCHANGED <<cand, candVer, ranking, candidateRankings, lastCalls, slots, auxVars>>

\* login_candidate stamps overall_rank on every record it finds and writes
\* candidate.json whether it found one or not
WithOverallRank(data, rk, c, pw) ==
  [pos \in Positions |->
     [i \in 1..Len(data[pos]) |->
        IF data[pos][i].id = c /\ data[pos][i].pw = pw
          THEN [data[pos][i] EXCEPT !.overall_rank = IF rk[pos][c] = 0 THEN NotRanked ELSE rk[pos][c]]
          ELSE data[pos][i]]]

LoginCandidateB(c, pw) ==
  /\ nreq < MaxReq
  /\ cand' = WithOverallRank(cand, ranking, c, pw)
  /\ candVer' = candVer + 1
  /\ last' = Response("login_candidate", "none", c, loginCandidateReply(cand, c, pw).status)
  /\ nreq' = nreq + 1
  /\ UNCHANGED <<ranking, jobs, candidateRankings, lastCalls, slots, auxVars>>

LoginJdB(r, pw) ==
  /\ nreq < MaxReq
  /\ last' = Response("login_jd", "none", r, loginJdReply(jobs, r, pw).status)
  /\ UNCHANGED <<cand, candVer, ranking, jobs, candidateRankings, lastCalls, nreq, slots, auxVars>>

NextDec ==
  \/ \E p \in DecPositions, c \in CandIds : RegisterCandidateB(p, c, RegPassword, PartScore)
  \/ \E p \in DecPositions, r \in Recruiters : RegisterJdB(p, r, RegPassword)
  \/ \E p \in DecPositions, r \in Recruiters, pw \in Passwords, c \in CandIds,
        decision \in RecruiterDecisions : RecruiterDecisionB(p, r, pw, c, decision)
  \/ \E p \in DecPositions, c \in CandIds, pw \in Passwords, company \in Recruiters,
        decision \in OfferDecisions : CandidateOfferResponseB(p, c, pw, company, decision)
  \/ \E p \in DecPositions, c \in CandIds, pw \in Passwords : ClearNotificationB(p, c, pw)
  \/ \E p \in DecPositions, r \in Recruiters, pw \in Passwords : ClearNotificationRecruiterB(p, r, pw)
  \/ \E c \in CandIds, pw \in Passwords : LoginCandidateB(c, pw)
  \/ \E r \in Recruiters, pw \in Passwords : LoginJdB(r, pw)

SpecDec == Init /\ [][NextDec]_vars

\* ---------------------------------------------------------------- a posting registered again with other terms
\* register_jd with the salary and job description of its body: the posting
\* of (position, username) is replaced, candidate.json is not written
RegisterJdTermsBMutant(p, r, pw, terms) ==
  /\ nreq < MaxReq
  /\ \E svc \in SvcFor(cand[p]) :
       LET ranked == Ranked(cand[p], svc)
           renewed(list) == [k \in 1..Len(list) |->
                               IF list[k].company = r
                                 THEN [list[k] EXCEPT !.salary = terms.salary,
                                                      !.job_description = terms.job_description]
                                 ELSE list[k]]
       IN /\ last' = Response("register_jd", p, r, 200)
          /\ nreq' = nreq + 1
          /\ candidateRankings' = ranked
          /\ jobs' = [jobs EXCEPT ![p][r] =
                        [JobPostingB(r, pw, p, ranked) EXCEPT
                           !.Salary = terms.salary, !.job_description = terms.job_description]]
          /\ ranking' = updateGlobalRanking(ranking, p, InMemory(cand, p, svc))
          /\ lastCalls' = AllCalls(cand[p])
          /\ cand' = [cand EXCEPT ![p] =
                        [i \in 1..Len(cand[p]) |->
                           [cand[p][i] EXCEPT !.offers = renewed(@), !.rejected = renewed(@)]]]
          /\ UNCHANGED <<candVer, slots, auxVars>>
RegisterJdTermsB(p, r, pw, terms) ==
  /\ nreq < MaxReq
  /\ \E svc \in SvcFor(cand[p]) :
       LET ranked == Ranked(cand[p], svc)
       IN /\ last' = Response("register_jd", p, r, 200)
          /\ nreq' = nreq + 1
          /\ candidateRankings' = ranked
          /\ jobs' = [jobs EXCEPT ![p][r] =
                        [JobPostingB(r, pw, p, ranked) EXCEPT
                           !.Salary = terms.salary, !.job_description = terms.job_description]]
          /\ ranking' = updateGlobalRanking(ranking, p, InMemory(cand, p, svc))
          /\ lastCalls' = AllCalls(cand[p])
          /\ UNCHANGED <<cand, candVer, slots, auxVars>>

NextTerms ==
  \/ \E p \in DecPositions, c \in CandIds : RegisterCandidateB(p, c, RegPassword, PartScore)
  \/ \E p \in DecPositions, r \in Recruiters, terms \in Terms :
       RegisterJdTermsB(p, r, RegPassword, terms)
  \/ \E p \in DecPositions, r \in Recruiters, c \in CandIds, decision \in RecruiterDecisions :
       RecruiterDecisionB(p, r, RegPassword, c, decision)
  \/ \E p \in DecPositions, c \in CandIds, company \in Recruiters, decision \in OfferDecisions :
       CandidateOfferResponseB(p, c, RegPassword, company, decision)

SpecTerms == Init /\ [][NextTerms]_vars

\* ---------------------------------------------------------------- uni_report of routes/user.js
\* for (const pos in candidateData): the positions in the order their keys
\* were created; the stores below always hold p1 first
PosSeq == <<"p1", "p2">>

\* { candidateId, overall_rank, ...candidate }: the rank of global_ranking.json
\* or "Not Ranked", replaced by the overall_rank key of the stored record when
\* login_candidate has written one
reportEntry(rk, pos, rec) ==
  [candidateId |-> rec.id, position |-> pos,
   overall_rank |-> IF rec.overall_rank # NoKey THEN rec.overall_rank
                    ELSE IF rk[pos][rec.id] = 0 THEN NotRanked ELSE rk[pos][rec.id]]

RECURSIVE candidatesFromUni(_, _, _, _)
candidatesFromUni(data, rk, u, k) ==
  IF k > Len(PosSeq) THEN <<>>
  ELSE LET pos == PosSeq[k]
           matching == SelectSeq(data[pos], LAMBDA rec : rec.University = u)
       IN [i \in 1..Len(matching) |-> reportEntry(rk, pos, matching[i])]
          \o candidatesFromUni(data, rk, u, k + 1)

\* (a, b) => a.overall_rank - b.overall_rank as Array.prototype.sort sees it:
\* "Not Ranked" - n is NaN, and a NaN from the comparator counts as 0
Cmp(a, b) ==
  IF a.overall_rank = NotRanked \/ b.overall_rank = NotRanked
    THEN 0 ELSE a.overall_rank - b.overall_rank

ReverseSeq(xs) == [i \in 1..Len(xs) |-> xs[Len(xs) + 1 - i]]

\* the element at index from (from >= to) is moved to index to
MoveTo(xs, from, to) ==
  [i \in 1..Len(xs) |->
     IF i < to \/ i > from THEN xs[i] ELSE IF i = to THEN xs[from] ELSE xs[i - 1]]

\* V8 TimSort, CountRunAndMakeAscending on an array of at least two elements:
\* the length of the run that starts the array
RunContinues(xs, i) ==
  IF Cmp(xs[2], xs[1]) < 0 THEN Cmp(xs[i], xs[i - 1]) < 0 ELSE Cmp(xs[i], xs[i - 1]) >= 0

CountRun(xs) ==
  CHOOSE n \in 2..Len(xs) :
    /\ \A i \in 3..n : RunContinues(xs, i)
    /\ n = Len(xs) \/ ~RunContinues(xs, n + 1)

MakeAscending(xs) ==
  IF Cmp(xs[2], xs[1]) < 0
    THEN ReverseSeq(SubSeq(xs, 1, CountRun(xs))) \o SubSeq(xs, CountRun(xs) + 1, Len(xs))
    ELSE xs

\* V8 TimSort, BinaryInsertionSort: the place of the pivot among xs[left+1..right]
RECURSIVE BinarySearch(_, _, _, _)
BinarySearch(xs, pivot, left, right) ==
  IF left >= right THEN left
  ELSE LET mid == left + ((right - left) \div 2)
       IN IF Cmp(pivot, xs[mid + 1]) < 0
            THEN BinarySearch(xs, pivot, left, mid)
            ELSE BinarySearch(xs, pivot, mid + 1, right)

RECURSIVE BinaryInsertionSort(_, _)
BinaryInsertionSort(xs, start) ==
  IF start >= Len(xs) THEN xs
  ELSE BinaryInsertionSort(
         MoveTo(xs, start + 1, BinarySearch(xs, xs[start + 1], 0, start) + 1),
         start + 1)

\* arrays shorter than 64 elements are one run completed by binary insertion
ArrayTimSort(xs) ==
  IF Len(xs) < 2 THEN xs ELSE BinaryInsertionSort(MakeAscending(xs), CountRun(xs))

\* V8 before 7.0, arrays of at most 10 elements: InsertionSort, an element
\* moves left while comparefn(tmp, element) > 0
RECURSIVE SinkLeft(_, _)
SinkLeft(xs, i) ==
  IF i > 1 /\ Cmp(xs[i - 1], xs[i]) > 0
    THEN SinkLeft(MoveTo(xs, i, i - 1), i - 1)
    ELSE xs

RECURSIVE InsertionSort(_, _)
InsertionSort(xs, i) ==
  IF i > Len(xs) THEN xs ELSE InsertionSort(SinkLeft(xs, i), i + 1)

Engines == {"timsort", "insertion"}

ArraySort(xs, eng) ==
  IF eng = "timsort" THEN ArrayTimSort(xs) ELSE InsertionSort(xs, 2)

UniReportBMutant(u) ==
  /\ last' = [op |-> "uni_report", position |-> "none", who |-> u, status |-> 200,
              candidates |-> ArraySort(candidatesFromUni(cand, ranking, u, 1), engine)]
  /\ cand' = [pos \in Positions |->
                [i \in 1..Len(cand[pos]) |->
                   IF cand[pos][i].University = u
                     THEN [cand[pos][i] EXCEPT !.overall_rank = NotRanked]
                     ELSE cand[pos][i]]]
  /\ UNCHANGED <<candVer, ranking, jobs, candidateRankings, lastCalls, nreq, slots, auxVars>>
UniReportB(u) ==
  /\ last' = [op |-> "uni_report", position |-> "none", who |-> u, status |-> 200,
              candidates |-> ArraySort(candidatesFromUni(cand, ranking, u, 1), engine)]
  /\ UNCHANGED <<cand, candVer, ranking, jobs, candidateRankings, lastCalls, nreq, slots, auxVars>>

\* candidate.json after register_candidate requests only, the first of them for p1
FreshPools ==
  {<<>>}
  \cup {<<candidateDetailsB(c, RegPassword, PartScore)>> : c \in CandIds}
  \cup {<<candidateDetailsB(pair[1], RegPassword, PartScore),
          candidateDetailsB(pair[2], RegPassword, PartScore)>> :
            pair \in {q \in CandIds \X CandIds : q[1] # q[2]}}

InitReport ==
  /\ cand \in [Positions -> FreshPools]
  /\ cand["p1"] # <<>>
  /\ candVer = Len(cand["p1"]) + Len(cand["p2"])
  /\ ranking = [p \in Positions |-> [c \in CandIds |-> 0]]
  /\ jobs = [p \in Positions |-> [r \in Recruiters |-> NoJob]]
  /\ candidateRankings = <<>>
  /\ lastCalls = {}
  /\ last = Response("none", "none", "none", 0)
  /\ nreq = 0
  /\ slots = [s \in Slots |-> IdleSlot]
  /\ hreq = NoRequest
  /\ hcall = NoCall
  /\ hret = NoReturn
  /\ engine \in Engines

\* the recruiter whose postings rank the pools
ReportRecruiter == "r1"

NextReport ==
  \/ \E p \in Positions : RegisterJdB(p, ReportRecruiter, RegPassword)
  \/ \E c \in CandIds, pw \in Passwords : LoginCandidateB(c, pw)
  \/ \E u \in Universities : UniReportB(u)

SpecReport == InitReport /\ [][NextReport]_vars

\* ---------------------------------------------------------------- decisions on registered candidates
\* the candidates are registered already; postings, decisions and responses follow
InitRegistered == InitReport /\ engine = "timsort"

NextAccept ==
  \/ \E p \in DecPositions, r \in Recruiters : RegisterJdB(p, r, RegPassword)
  \/ \E p \in DecPositions, r \in Recruiters, c \in CandIds, decision \in RecruiterDecisions :
       RecruiterDecisionB(p, r, RegPassword, c, decision)
  \/ \E p \in DecPositions, c \in CandIds, company \in Recruiters, decision \in OfferDecisions :
       CandidateOfferResponseB(p, c, RegPassword, company, decision)

SpecAccept == InitRegistered /\ [][NextAccept]_vars

\* ---------------------------------------------------------------- calculateAtsScore on its own
\* the scores a candidate object may carry: absent, "-5.00", "0", "0.50",
\* "20.00", "40.00", "60.00", "80.00", "150.00"
AtsScores == {Missing, -500, 0, 50, 2000, 4000, 6000, 8000, 15000}

InitAts ==
  /\ cand = [p \in Positions |-> <<>>]
  /\ ranking = [p \in Positions |-> [c \in CandIds |-> 0]]
  /\ jobs = [p \in Positions |-> [r \in Recruiters |-> NoJob]]
  /\ candidateRankings = <<>>
  /\ lastCalls = {}
  /\ last = Response("none", "none", "none", 0)
  /\ nreq = 0
  /\ slots = [s \in Slots |-> IdleSlot]
  /\ candVer = 0
  /\ \E sc \in [Categories -> AtsScores] : hreq = [NoRequest EXCEPT !.score = sc]
  /\ hcall = NoCall
  /\ hret = NoReturn
  /\ engine = "timsort"

\* calculateAtsScore(candidate) is called on the candidate object and returns
CalculateAts ==
  /\ hret.fn = "none"
  /\ hret' = [fn |-> "calculateAtsScore", gaveUp |-> FALSE,
              result |-> [ats |-> calculateAtsScore(hreq.score)]]
  /\ UNCHANGED <<cand, candVer, ranking, jobs, candidateRankings, lastCalls, last, nreq,
                 slots, hreq, hcall, engine>>

NextAts == CalculateAts

SpecAts == InitAts /\ [][NextAts]_vars

\* ---------------------------------------------------------------- getCategoryScore, the reply of the scoring model
\* message.content of the reply: a text that parseFloat reads no number from,
\* or a number, held in thousandths: -5, 0.004, 99.996, 150
NotNumeric == -1000000000
LlmContents == {NotNumeric, -5000, 4, 99996, 150000}

\* Number.prototype.toFixed(2) of a number held in thousandths, in hundredths
toFixed2(m) == IF m < 0 THEN -RoundHalfUp(-m, 10) ELSE RoundHalfUp(m, 10)

\* const score = parseFloat(scoreText); return isNaN(score) ? "0" : score.toFixed(2)
scoreOfReply(content) == IF content = NotNumeric THEN 0 ELSE toFixed2(content)

\* the candidate whose registration is followed call by call
ScoreCandidate == "c1"

\* the scoring model answers a getCategoryScore call
ScoreReply(content) ==
  /\ hcall.pc = "waiting"
  /\ hcall.fn = "getCategoryScore"
  /\ CallsResume("B", [score |-> scoreOfReply(content)], FALSE)

\* the call fails for good and the helper returns "0"
ScoreCallFails ==
  /\ hcall.pc = "waiting"
  /\ hcall.fn = "getCategoryScore"
  /\ CallsReply("B", "http_error")

\* an extraction or an embedding is answered
OtherCallAnswered ==
  /\ hcall.pc = "waiting"
  /\ hcall.fn # "getCategoryScore"
  /\ CallsReply("B", "ok")

NextScore ==
  \/ \E p \in CallPositions, body \in CandidateBodies :
       CallsRegisterCandidate(p, ScoreCandidate, body)
  \/ OtherCallAnswered
  \/ \E content \in LlmContents : ScoreReply(content)
  \/ ScoreCallFails

SpecScore == Init /\ [][NextScore]_vars

\* ================================================================ claims
JdOps == {"register_jd", "add_job_description_cv"}

JdDone == last.op \in JdOps /\ last.status = 200

\* the element of a ranked list that belongs to candidate c
ObjOf(ranked, c) == ranked[CHOOSE i \in 1..Len(ranked) : ranked[i].candidateId = c]

RankedIds(ranked) == {ranked[i].candidateId : i \in 1..Len(ranked)}

RECURSIVE SumOver(_, _)
SumOver(S, f) ==
  IF S = {} THEN 0
  ELSE LET x == CHOOSE y \in S : TRUE IN f[x] + SumOver(S \ {x}, f)

\* C1 (routes/user.js): after two register_jd requests by different recruiters
\* for the same position against a stored pool of two candidates, each stored
\* candidate record has two similarityScores and an overall_similarity equal
\* to the mean of the two per-posting similarities.
C1_TwoPostingsHistory ==
  \A p \in Positions :
    ( /\ nreq = 4
      /\ last.op = "register_jd"
      /\ Len(cand[p]) = 2
      /\ \A r \in Recruiters :
           jobs[p][r].exists /\ RankedIds(jobs[p][r].candidate_rankings) = Ids(cand[p]) )
    => \A i \in 1..Len(cand[p]) :
         /\ Len(cand[p][i].hist) = 2
         /\ 2 * cand[p][i].os =
              ObjOf(jobs[p]["r1"].candidate_rankings, cand[p][i].id).currentJobSim
            + ObjOf(jobs[p]["r2"].candidate_rankings, cand[p][i].id).currentJobSim

\* C2 (part_000): every stored candidate record has overall_similarity equal to
\* the sum of its similarityScores divided by their number, and 0 when it has none.
C2_OverallIsMean ==
  \A p \in Positions : \A i \in 1..Len(cand[p]) :
    IF cand[p][i].hist = <<>>
      THEN cand[p][i].os = 0
      ELSE cand[p][i].os * Len(cand[p][i].hist) = SumSeq(cand[p][i].hist)

C2_Witness ==
  \E p \in Positions : \E i \in 1..Len(cand[p]) :
    /\ Len(cand[p][i].hist) >= 2
    /\ cand[p][i].hist[1] # cand[p][i].hist[2]
    /\ cand[p][i].os > 0

\* C3: a register_candidate for a (position, number) that already has a stored
\* profile is answered with a failure and leaves the stored profile unchanged.
C3_DuplicateRegistrationFails ==
  [][\A p \in Positions : \A c \in CandIds :
       ( /\ Has(cand, p, c)
         /\ nreq' = nreq + 1
         /\ last' = Response("register_candidate", p, c, last'.status) )
       => /\ last'.status # 200
          /\ Rec(cand', p, c) = Rec(cand, p, c)]_vars

\* C4 (part_000): for every position with a non-empty GlobalRanking entry, the
\* candidate holding rank 1 has a stored overall_similarity at least that of
\* every candidate stored under the position.
C4_RankOneIsMax ==
  \A p \in Positions : \A c1 \in Ids(cand[p]) :
    ranking[p][c1] = 1 =>
      \A c2 \in Ids(cand[p]) : Rec(cand, p, c1).os >= Rec(cand, p, c2).os

\* C5 (routes/user.js): after a completed register_jd or add_job_description_cv
\* for position p, GlobalRanking[p] is the ranking obtained by sorting the
\* records stored in candidate.json under p by their stored overall_similarity.
C5_RankingRebuildsFromStore ==
  JdDone => ranking[last.position] = updateGlobalRanking(ranking, last.position, cand)[last.position]

\* C6 (part_000): when two register_jd requests for the same position have both
\* read candidate.json before either wrote it, then once both have written
\* (and nothing else has), every candidate of the pool they read has gained one
\* similarityScores entry, not two: the entry of the request that wrote last.
BothReadBeforeEitherWrote ==
  /\ slots[1].pc = "done" /\ slots[2].pc = "done"
  /\ slots[1].position = slots[2].position
  /\ slots[1].readVer = slots[2].readVer
  /\ slots[1].snap[slots[1].position] # <<>>
  /\ candVer = slots[1].readVer + 2
  /\ last.op = "register_jd"

C6_FirstAppendLost ==
  BothReadBeforeEitherWrote =>
    LET p == slots[1].position
        later == CHOOSE s \in Slots : slots[s].username = last.who /\ slots[s].ranked = candidateRankings
    IN \A c \in Ids(slots[1].snap[p]) :
         /\ Has(cand, p, c)
         /\ Len(Rec(cand, p, c).hist) = Len(Rec(slots[1].snap, p, c).hist) + 1
         /\ Rec(cand, p, c).hist =
              Append(Rec(slots[1].snap, p, c).hist, ObjOf(slots[later].ranked, c).currentJobSim)

\* the two requests computed different similarities for a candidate, and only
\* one of them is in the stored history
C6_Witness ==
  /\ BothReadBeforeEitherWrote
  /\ \E c \in Ids(slots[1].snap[slots[1].position]) :
       /\ ObjOf(slots[1].ranked, c).currentJobSim # ObjOf(slots[2].ranked, c).currentJobSim
       /\ Len(Rec(cand, slots[1].position, c).hist) = 1

\* C7: a candidate profile, once in the candidate store, is in the store after
\* every later step, also when a register_jd was in flight at the time.
C7_ProfileNeverRemoved ==
  [][\A p \in Positions : \A c \in CandIds : Has(cand, p, c) => Has(cand', p, c)]_vars

\* C8: the ranked list register_jd computes holds each candidate of the
\* position's pool exactly once, is ordered by non-increasing
\* overall_similarity, and its i-th element carries ranking i.
C8_RankedList ==
  JdDone =>
    LET pool == cand[last.position]
        rl == candidateRankings
    IN /\ Len(rl) = Len(pool)
       /\ \A c \in Ids(pool) : Cardinality({i \in 1..Len(rl) : rl[i].candidateId = c}) = 1
       /\ \A i \in 1..Len(rl) :
            /\ rl[i].ranking = i
            /\ \A j \in 1..Len(rl) : i < j => rl[i].overall_similarity >= rl[j].overall_similarity

\* a pool of two whose ranked order is the reverse of the store's key order
C8_Witness ==
  /\ JdDone
  /\ Len(candidateRankings) = 2
  /\ candidateRankings[1].candidateId = cand[last.position][2].id
  /\ candidateRankings[1].overall_similarity > candidateRankings[2].overall_similarity

\* C9 (part_000): a register_jd with topCandidates = N on a pool of n candidates
\* appends one offers_available entry for the recruiter to exactly the
\* candidates ranked 1..min(N, n) and one rejected_from entry to every other
\* candidate of the pool, and nothing else to either list.
C9_OfferOrRejection ==
  [][(nreq' = nreq + 1 /\ last'.op = "register_jd") =>
     \A p \in {last'.position} : \A r \in {last'.who} :
     \A n \in {k \in TopChoices : Len(jobs'[p][r].candidates) = Min(k, Len(cand[p]))} :
       RegisterJdA(p, r, RegPassword, n) =>
         \A c \in Ids(cand[p]) :
           IF ObjOf(candidateRankings', c).ranking <= Min(n, Len(cand[p]))
             THEN /\ Rec(cand', p, c).offers = Append(Rec(cand, p, c).offers, companyDetails(r, p))
                  /\ Rec(cand', p, c).rejected = Rec(cand, p, c).rejected
             ELSE /\ Rec(cand', p, c).rejected = Append(Rec(cand, p, c).rejected, companyDetails(r, p))
                  /\ Rec(cand', p, c).offers = Rec(cand, p, c).offers]_vars

\* a register_jd on a pool of two has just offered one candidate and rejected the other
C9_Witness ==
  /\ last.op = "register_jd" /\ last.status = 200
  /\ Len(cand[last.position]) = 2
  /\ \E i, j \in 1..2 :
       /\ cand[last.position][i].offers # <<>>
       /\ cand[last.position][i].offers[Len(cand[last.position][i].offers)].company = last.who
       /\ cand[last.position][i].rejected = <<>>
       /\ cand[last.position][j].rejected # <<>>
       /\ cand[last.position][j].rejected[Len(cand[last.position][j].rejected)].company = last.who
       /\ cand[last.position][j].offers = <<>>

\* C10: in the scored register_jd, a category whose stored score is 0
\* contributes 0 to currentSim and the Similarity Service is not called for it,
\* whatever the service would have answered: four times currentSim is the sum
\* of the answers for the categories with a non-zero score.
C10_ZeroScoreGating ==
  [][(nreq' = nreq + 1 /\ last'.op = "register_jd") =>
     \A p \in {last'.position} : \A r \in {last'.who} :
     \A n \in {k \in TopChoices : Len(jobs'[p][r].candidates) = Min(k, Len(cand[p]))} :
     \A svc \in SvcFor(cand[p]) :
         RegisterJdWithA(p, r, RegPassword, n, svc) =>
           \A i \in 1..Len(cand[p]) :
             LET rec == cand[p][i]
                 scored == {cat \in Categories : rec.score[cat] # 0}
             IN /\ 4 * ObjOf(candidateRankings', rec.id).currentJobSim = SumOver(scored, svc[rec.id])
                /\ \A cat \in Categories \ scored : <<rec.id, cat>> \notin lastCalls'
                /\ \A cat \in scored : <<rec.id, cat>> \in lastCalls']_vars

\* a register_jd has just scored a candidate that has both a zero and a
\* non-zero category score and got a non-zero similarity
C10_Witness ==
  /\ last.op = "register_jd" /\ last.status = 200
  /\ \E i \in 1..Len(cand[last.position]) :
       LET rec == cand[last.position][i]
       IN /\ \E cat \in Categories : rec.score[cat] = 0
          /\ \E cat \in Categories : rec.score[cat] # 0
          /\ ObjOf(candidateRankings, rec.id).currentJobSim > 0
          /\ \E cat \in Categories : <<rec.id, cat>> \in lastCalls

\* C11 (part_000): a candidate whose four category scores are all 0 gets
\* currentSim = 0 from every register_jd, and gets the offer of a register_jd
\* only if every candidate of the pool has similarity 0 as well.
C11_AllZeroNeverOffered ==
  [][(nreq' = nreq + 1 /\ last'.op = "register_jd") =>
     \A c \in Ids(cand[last'.position]) :
       Rec(cand, last'.position, c).score = AllZeroScore =>
         /\ ObjOf(candidateRankings', c).currentJobSim = 0
         /\ Rec(cand', last'.position, c).offers # Rec(cand, last'.position, c).offers =>
              \A i \in 1..Len(candidateRankings') :
                candidateRankings'[i].overall_similarity = 0]_vars

\* C12: a helper sends at most 3 requests per invocation; it sends one more
\* request only after a rate-limit (429) reply; after any other failure it
\* returns without sending another request.
C12_BoundedRetry ==
  [][ /\ hcall'.sent <= 3
      /\ (hcall.pc # "none" /\ hcall'.fn = hcall.fn /\ hcall'.sent > hcall.sent)
           => (hcall.reply = "rate_limited" /\ hcall'.sent = hcall.sent + 1)
      /\ \A reply \in {"http_error", "no_response"} :
           (hcall.pc = "waiting" /\ CallsReply("B", reply))
             => /\ hret'.fn = hcall.fn /\ hret'.gaveUp
                /\ (hcall'.pc = "none" \/ (hcall'.attempt = 1 /\ hreq'.step = hreq.step + 1)) ]_vars

\* the third request of a similarity comparison is in flight
C12_Witness ==
  /\ hcall.pc = "waiting" /\ hcall.sent = 3
  /\ hcall.fn = "computeCosineSimilarity"

\* C13: a call that fails for good (a reply other than 429, or a 429 to the
\* third attempt) makes the helper return its neutral default (queryCV "",
\* getEmbedding null, getCategoryScore "0", computeCosineSimilarity 0), never
\* throw; and a register_candidate that has made its calls stores the profile
\* and answers 200, also when every call failed.  (The score "0" is held as
\* the number it parses to.)
C13_NeutralDefaults ==
  [][ /\ \A reply \in Replies \ {"ok"} :
           ( /\ hcall.pc = "waiting"
             /\ (reply # "rate_limited" \/ hcall.attempt = 3)
             /\ CallsReply("B", reply) )
           => /\ hret'.fn = hcall.fn
              /\ hret'.result =
                   CASE hcall.fn = "queryCV" -> [text |-> ""]
                     [] hcall.fn = "getEmbedding" -> [embedding |-> "null"]
                     [] hcall.fn = "getCategoryScore" -> [score |-> 0]
                     [] hcall.fn = "computeCosineSimilarity" -> [similarity |-> 0]
      /\ (hreq.op = "register_candidate" /\ hreq.pc = "calls" /\ hreq'.pc = "idle")
           => /\ last' = Response("register_candidate", hreq.position, hreq.who, 200)
              /\ Has(cand', hreq.position, hreq.who)
              /\ candVer' = candVer + 1 ]_vars

\* a register_candidate all twelve of whose calls failed has been answered 200
\* and its profile is in the store, with four zero scores
C13_Witness ==
  /\ hreq.pc = "idle" /\ hreq.op = "register_candidate" /\ hreq.allFailed
  /\ last.op = "register_candidate" /\ last.status = 200
  /\ Has(cand, last.position, last.who)
  /\ Rec(cand, last.position, last.who).score = AllZeroScore

\* C14 (part_000): whatever comparisons of a register_jd fail, each failed
\* comparison counts as similarity 0, the request is answered 200, and every
\* candidate of the pool is in the ranked list once and gains exactly one
\* similarityScores entry: a quarter of the sum of the answers to its
\* comparisons that did not fail.
C14_FailedComparisonIsZero ==
  [][(hreq.op = "register_jd" /\ hreq.pc = "calls" /\ hreq'.pc = "idle") =>
       LET p == hreq.position
           failed == IF hret'.gaveUp /\ hret'.fn = "computeCosineSimilarity"
                       THEN hreq.failed \cup {<<Comparisons(cand[p])[hreq.step - 8][1], hcall.cat>>}
                       ELSE hreq.failed
       IN /\ last' = Response("register_jd", p, hreq.who, 200)
          /\ Len(candidateRankings') = Len(cand[p])
          /\ \A i \in 1..Len(cand[p]) :
               LET rec == cand[p][i]
                   good == {cat \in Categories : rec.score[cat] # 0 /\ <<rec.id, cat>> \notin failed}
               IN /\ Cardinality({j \in 1..Len(candidateRankings') :
                                    candidateRankings'[j].candidateId = rec.id}) = 1
                  /\ cand'[p][i].id = rec.id
                  /\ Len(cand'[p][i].hist) = Len(rec.hist) + 1
                  /\ 4 * cand'[p][i].hist[Len(rec.hist) + 1] = SumOver(good, SvcMixed) ]_vars

\* a register_jd on a pool of two has been answered 200 after one comparison
\* of a candidate failed and another of the same candidate was answered
C14_Witness ==
  /\ hreq.pc = "idle" /\ hreq.op = "register_jd"
  /\ last.op = "register_jd" /\ last.status = 200
  /\ Len(candidateRankings) = 2
  /\ \E j \in 1..2 :
       /\ <<candidateRankings[j].candidateId, "skills">> \in lastCalls
       /\ <<candidateRankings[j].candidateId, "experience">> \in lastCalls
       /\ candidateRankings[j].currentJobSim \in {One \div 4, Half \div 4}

C16_UniformCredentialFailure ==
  \A p \in DecPositions : \A pw \in Passwords :
    /\ \A c1, c2 \in CandIds :
         ( /\ \A pos \in Positions : ~Has(cand, pos, c1)
           /\ Has(cand, p, c2)
           /\ \A pos \in Positions : Has(cand, pos, c2) => Rec(cand, pos, c2).pw # pw )
         => /\ loginCandidateReply(cand, c1, pw) = loginCandidateReply(cand, c2, pw)
            /\ clearNotificationReply(cand, p, c1, pw) = clearNotificationReply(cand, p, c2, pw)
            /\ offerResponseReply(cand, p, c1, pw) = offerResponseReply(cand, p, c2, pw)
    /\ \A r1, r2 \in Recruiters :
         ( /\ \A pos \in Positions : ~jobs[pos][r1].exists
           /\ jobs[p][r2].exists
           /\ \A pos \in Positions : jobs[pos][r2].exists => jobs[pos][r2].Password # pw )
         => /\ loginJdReply(jobs, r1, pw) = loginJdReply(jobs, r2, pw)
            /\ recruiterDecisionReply(jobs, p, r1, pw) = recruiterDecisionReply(jobs, p, r2, pw)

\* C17 (routes/user.js): a clear_notification_recruiter whose password is not
\* the one stored on the posting is answered with a client error and leaves
\* the posting's new_notification counter unchanged.
C17_ClearRecruiterChecksPassword ==
  [][\A p \in DecPositions : \A r \in Recruiters : \A pw \in Passwords :
       ( /\ jobs[p][r].exists
         /\ jobs[p][r].Password # pw
         /\ ClearNotificationRecruiterB(p, r, pw) )
       => /\ last'.op = "clear_notification_recruiter"
          /\ last'.status \in 400..499
          /\ jobs'[p][r].new_notification = jobs[p][r].new_notification]_vars

\* C18 (routes/user.js): a recruiter_decision with the posting's own password
\* for a candidateId that has no profile under the position is answered with
\* a client error and leaves selected_candidates and rejected_candidates of
\* the posting unchanged.
C18_DecisionForUnknownCandidate ==
  [][\A p \in DecPositions : \A r \in Recruiters : \A c \in CandIds :
     \A decision \in {"select", "reject"} :
       ( /\ jobs[p][r].exists
         /\ ~Has(cand, p, c)
         /\ RecruiterDecisionB(p, r, jobs[p][r].Password, c, decision) )
       => /\ last'.op = "recruiter_decision"
          /\ last'.status \in 400..499
          /\ jobs'[p][r].selected_candidates = jobs[p][r].selected_candidates
          /\ jobs'[p][r].rejected_candidates = jobs[p][r].rejected_candidates]_vars

\* C20 (routes/user.js): in every state, offers_available of a candidate record
\* holds at most one entry per company, and so does rejected_from.
C20_OneEntryPerCompany ==
  \A p \in Positions : \A i \in 1..Len(cand[p]) : \A r \in Recruiters :
    /\ Cardinality({k \in 1..Len(cand[p][i].offers) : cand[p][i].offers[k].company = r}) <= 1
    /\ Cardinality({k \in 1..Len(cand[p][i].rejected) : cand[p][i].rejected[k].company = r}) <= 1

\* a recruiter selected the same candidate twice (two notifications were
\* counted) and the candidate holds a single offer from that recruiter
C20_Witness ==
  \E p \in Positions : \E i \in 1..Len(cand[p]) :
    /\ cand[p][i].notifications >= 2
    /\ Len(cand[p][i].offers) = 1
    /\ last.op = "recruiter_decision" /\ last.status = 200

\* C19 (routes/user.js, part_000): uni_report returns the matching candidates
\* in ascending order of overall rank: of two returned entries that both have
\* an integer rank, the one with the smaller rank comes first, also when
\* entries with the "Not Ranked" sentinel are among the results.
C19_ReportSortedByRank ==
  (last.op = "uni_report" /\ last.status = 200)
  => \A i, j \in 1..Len(last.candidates) :
       ( /\ i < j
         /\ last.candidates[i].overall_rank # NotRanked
         /\ last.candidates[j].overall_rank # NotRanked )
       => last.candidates[i].overall_rank <= last.candidates[j].overall_rank

\* C21 (helpers.js): calculateAtsScore returns the arithmetic mean of the four
\* category scores, a missing score counted as 0, clamped to [0, 100] and
\* given with two decimals (the nearest hundredth); for the scores
\* 80, 60, 40, 20 it returns 50.00.
C21_AtsIsClampedMean ==
  hret.fn = "calculateAtsScore" =>
    LET value(cat) == IF hreq.score[cat] = Missing THEN 0 ELSE hreq.score[cat]
        total == value("skills") + value("education")
                 + value("responsibilities") + value("experience")
        clamped == IF total > 40000 THEN 40000 ELSE IF total < 0 THEN 0 ELSE total
        ats == hret.result.ats
    IN /\ ats \in 0..10000
       /\ 4 * ats - clamped \in -2..2
       /\ (clamped % 4 = 0) => 4 * ats = clamped
       /\ hreq.score = [skills |-> 8000, education |-> 6000,
                        responsibilities |-> 4000, experience |-> 2000]
            => ats = 5000

\* calculateAtsScore has returned 50.00 for the scores 80, 60, 40, 20
C21_Witness ==
  /\ hret.fn = "calculateAtsScore"
  /\ hreq.score = [skills |-> 8000, education |-> 6000,
                   responsibilities |-> 4000, experience |-> 2000]
  /\ hret.result.ats = 5000

\* C22 (helpers.js, routes/user.js): every category score that
\* getCategoryScore returns and register_candidate stores lies in [0, 100],
\* whatever number the scoring model replies with.
C22_ScoreInRange ==
  /\ hret.fn = "getCategoryScore" => hret.result.score \in 0..10000
  /\ \A p \in Positions : \A i \in 1..Len(cand[p]) : \A cat \in Categories :
       cand[p][i].score[cat] \in 0..10000

\* C23: the ats of a stored candidate record is set when the profile is created
\* and every later register_jd, add_job_description_cv, recruiter_decision and
\* candidate_offer_response leaves it unchanged, however the similarity
\* history of the candidate changes.
C23_AtsNotRecomputed ==
  [][last'.op \in {"register_jd", "add_job_description_cv",
                   "recruiter_decision", "candidate_offer_response"}
     => \A p \in Positions : \A c \in CandIds :
          (Has(cand, p, c) /\ Has(cand', p, c))
          => /\ Rec(cand', p, c).ats = Rec(cand, p, c).ats
             /\ Rec(cand', p, c).ats = calculateAtsScore(Rec(cand', p, c).score)]_vars

\* a registered candidate with a non-zero ats has been scored by two postings
\* that gave different similarities
C23_Witness ==
  \E p \in Positions : \E i \in 1..Len(cand[p]) :
    /\ cand[p][i].ats = 3500
    /\ Len(cand[p][i].hist) = 2
    /\ cand[p][i].hist[1] # cand[p][i].hist[2]
    /\ last.op \in {"register_jd", "add_job_description_cv"} /\ last.status = 200

\* C24: immediately after a register_jd for position p has completed, with no
\* other request interleaved, the keys of GlobalRanking[p] are exactly the
\* candidate ids stored under p and its values are a permutation of 1..n, n
\* being the size of the pool.
C24_RankingIsPermutation ==
  (last.op = "register_jd" /\ last.status = 200)
  => LET p == last.position
         keys == {c \in CandIds : ranking[p][c] # 0}
     IN /\ keys = Ids(cand[p])
        /\ {ranking[p][c] : c \in keys} = 1..Len(cand[p])

\* a register_jd has just ranked a pool of two and the candidate registered
\* first holds rank 2
C24_Witness ==
  /\ last.op = "register_jd" /\ last.status = 200
  /\ Len(cand[last.position]) = 2
  /\ ranking[last.position][cand[last.position][1].id] = 2
  /\ ranking[last.position][cand[last.position][2].id] = 1

\* C25 (routes/user.js): an offer or rejection record appended to a candidate
\* is a copy of the posting's company, salary, job description and position at
\* that moment; when the recruiter registers the posting again with another
\* salary or job description, the records already stored on candidates are
\* unchanged.
C25_OfferIsSnapshot ==
  [][\A p \in DecPositions : \A r \in Recruiters :
       /\ (\E terms \in Terms : RegisterJdTermsB(p, r, RegPassword, terms))
            => \A i \in 1..Len(cand[p]) :
                 /\ cand'[p][i].offers = cand[p][i].offers
                 /\ cand'[p][i].rejected = cand[p][i].rejected
       /\ \A c \in Ids(cand[p]) : \A decision \in {"select", "reject"} :
            ( /\ jobs[p][r].exists
              /\ RecruiterDecisionB(p, r, RegPassword, c, decision)
              /\ ~FromCompany(IF decision = "select" THEN Rec(cand, p, c).offers
                                                     ELSE Rec(cand, p, c).rejected, r) )
            => LET list == IF decision = "select" THEN Rec(cand', p, c).offers
                                                  ELSE Rec(cand', p, c).rejected
               IN list[Len(list)] = [company |-> r, salary |-> jobs[p][r].Salary,
                                     job_description |-> jobs[p][r].job_description,
                                     position |-> p]]_vars

\* a candidate holds an offer with the terms of the first registration while
\* the posting has been registered again with other terms
C25_Witness ==
  \E p \in DecPositions : \E r \in Recruiters : \E i \in 1..Len(cand[p]) :
    /\ jobs[p][r].exists
    /\ FromCompany(cand[p][i].offers, r)
    /\ OfferFrom(cand[p][i].offers, r).salary # jobs[p][r].Salary
    /\ OfferFrom(cand[p][i].offers, r).job_description # jobs[p][r].job_description
    /\ last.op = "register_jd"

\* C26 (routes/user.js): two uni_report requests for the same university with
\* no write to any store between them return the same candidates in the same
\* order: as long as no store has been written, the response a report has
\* returned is the response the same request returns now.
C26_ReportIdempotent ==
  last.op = "uni_report"
  => last.candidates = ArraySort(candidatesFromUni(cand, ranking, last.who, 1), engine)

\* a report of three entries has been returned, in an order that is not the
\* order the entries were gathered in
C26_Witness ==
  /\ last.op = "uni_report"
  /\ Len(last.candidates) = 3
  /\ last.candidates # candidatesFromUni(cand, ranking, last.who, 1)

\* C27 (part_000): one register_jd for position p appends exactly one entry to
\* similarityScores of every candidate stored under p, and leaves the records
\* of the candidates stored under every other position unchanged.
C27_OnlyThePositionIsScored ==
  [][(nreq' = nreq + 1 /\ last'.op = "register_jd" /\ last'.status = 200) =>
     LET p == last'.position
     IN /\ Len(cand'[p]) = Len(cand[p])
        /\ \A i \in 1..Len(cand[p]) :
             /\ cand'[p][i].id = cand[p][i].id
             /\ Len(cand'[p][i].hist) = Len(cand[p][i].hist) + 1
             /\ SubSeq(cand'[p][i].hist, 1, Len(cand[p][i].hist)) = cand[p][i].hist
        /\ \A q \in Positions \ {p} : cand'[q] = cand[q]]_vars

\* a register_jd has just scored a candidate under its position, and the same
\* candidate is also stored under the other position, where nothing was appended
C27_Witness ==
  /\ last.op = "register_jd" /\ last.status = 200
  /\ \E q \in Positions \ {last.position} : \E c \in CandIds :
       /\ Has(cand, last.position, c) /\ Has(cand, q, c)
       /\ Len(Rec(cand, last.position, c).hist) = 1
       /\ Rec(cand, q, c).hist = <<>>
       /\ Rec(cand, q, c).offers = <<>> /\ Rec(cand, q, c).rejected = <<>>

\* C28 (routes/user.js): in every state reached by register_jd,
\* recruiter_decision and candidate_offer_response requests, every candidate
\* id in a posting's candidates_accepted is also in that posting's
\* selected_candidates.
C28_AcceptedWereSelected ==
  \A p \in Positions : \A r \in Recruiters :
    jobs[p][r].exists =>
      \A k \in 1..Len(jobs[p][r].candidates_accepted) :
        Includes(jobs[p][r].selected_candidates, jobs[p][r].candidates_accepted[k])

\* C29 (routes/user.js): in every state reached by recruiter_decision
\* requests, no candidate id is in both selected_candidates and
\* rejected_candidates of the same posting.
C29_SelectedOrRejected ==
  \A p \in Positions : \A r \in Recruiters :
    jobs[p][r].exists =>
      \A c \in CandIds :
        ~(Includes(jobs[p][r].selected_candidates, c) /\ Includes(jobs[p][r].rejected_candidates, c))

\* C30: in part_000, in every reachable state, also those reached when
\* register_jd requests interleave at their awaits with each other and with
\* register_candidate, no two candidates hold the same rank in the
\* GlobalRanking entry of one position (rank 0 stands for "no key").
C30_RanksAreDistinct ==
  \A p \in Positions : \A c \in CandIds : \A d \in CandIds :
    (c # d /\ ranking[p][c] # 0) => ranking[p][c] # ranking[p][d]

====
